---------------------------- MODULE Spec2Model ----------------------------
(***************************************************************************)
(* A model of dabom_langchain: DabomSearchAPIWrapper (the HTTP client of   *)
(* the Dabom search API, dabom_search_api_wrapper.py) and                  *)
(* DabomSearchResults (the tool that wraps it, dabom_search.py).           *)
(*                                                                         *)
(* A call is a process: it builds its request and posts it on a session of *)
(* its own (X_call), the remote service answers the session (Serve), and   *)
(* the call resumes with the response and finishes (X_return).  The point  *)
(* between X_call and X_return is the blocking read of requests.post, or   *)
(* the await of aiohttp's session.post.                                    *)
(***************************************************************************)
EXTENDS Integers, Sequences, FiniteSets, TLC

VARIABLES
    dabom_api_key,       \* DabomSearchAPIWrapper.dabom_api_key (the secret's value)
    ctor_max_results,    \* the max_results given to DabomSearchResults(...), or Omitted
    tool_max_results,    \* DabomSearchResults.max_results
    pc,                  \* per call: "idle", "sent" (request posted, awaiting), "done"
    call,                \* per call: the operation called and its arguments
    posts,               \* per call: the number of HTTP POSTs it has issued
    wire,                \* per session: its owner, the request posted, the response
    answer,              \* per call: the response the service gave to its request
    raw_search_results,  \* per call: the local raw_search_results / results_json
    outcome              \* per call: what the call returned or raised

vars == <<dabom_api_key, ctor_max_results, tool_max_results, pc, call, posts,
          wire, answer, raw_search_results, outcome>>

-----------------------------------------------------------------------------
(* Bounds of the model. *)

\* The longest `results` list of a response body.
MaxLen == 2
\* The number of concurrent calls on one client under SpecConc.
NumCalls == 2

-----------------------------------------------------------------------------
(* Python values.  Every value is a record with a tag t. *)

\* An optional argument: given with a value, or left out by the caller.
Omitted == [given |-> FALSE, v |-> 0]
Given(k) == [given |-> TRUE, v |-> k]

PyNone == [t |-> "None"]
PyList(items) == [t |-> "list", items |-> items]
PyDict(obj) == [t |-> "dict", obj |-> obj]
PyText(body) == [t |-> "text", body |-> body]
\* repr(e) of an exception e: a str naming e's class and arguments.
PyRepr(e) == [t |-> "str", repr |-> e]

\* An exception: its class and what it carries.
Exc(type, key, status, reason) ==
    [type |-> type, key |-> key, status |-> status, reason |-> reason]

Ret(v) == [kind |-> "return", value |-> v, exc |-> Exc("", "", 0, "")]
Raise(e) == [kind |-> "raise", value |-> PyNone, exc |-> e]
NoOutcome == [kind |-> "none", value |-> PyNone, exc |-> Exc("", "", 0, "")]

-----------------------------------------------------------------------------
(* The inputs. *)

Keys == {"sk-A", "sk-B"}
Queries == {"weather", "news"}
\* max_results as a caller may give it.
MaxResultsArgs == {Omitted, Given(1), Given(7)}

DABOM_API_URL == "https://api.dabomai.com"

\* Result records of the remote service: complete, minimal, and lacking fields.
RecFull == [url |-> "u1", content |-> "c1", title |-> "t1", score |-> "0.9"]
RecMin == [url |-> "u2", content |-> "c2"]
RecNoUrl == [content |-> "c1", title |-> "t1"]
RecNoContent == [url |-> "u1", score |-> "0.9"]
RecNeither == [title |-> "t1"]
Records == {RecFull, RecMin, RecNoUrl, RecNoContent, RecNeither}

ResultLists == UNION {[1..n -> Records] : n \in 0..MaxLen}

\* A response body: text that is no JSON, or a JSON object.
BodyNotJson == [json |-> FALSE, obj |-> [detail |-> "not json"]]
BodyNoResults == [json |-> TRUE, obj |-> [query |-> "weather"]]
BodyResults(l) == [json |-> TRUE, obj |-> [query |-> "weather", results |-> l]]
Bodies == {BodyNotJson, BodyNoResults} \cup {BodyResults(l) : l \in ResultLists}

Statuses == {200, 201, 204, 304, 404, 500}
Reason(status) ==
    CASE status = 200 -> "OK"
      [] status = 201 -> "Created"
      [] status = 204 -> "No Content"
      [] status = 304 -> "Not Modified"
      [] status = 404 -> "Not Found"
      [] status = 500 -> "Internal Server Error"
      [] OTHER -> ""

HttpResponse(status, body) ==
    [conn |-> TRUE, status |-> status, reason |-> Reason(status), body |-> body]
\* No response at all: the connection failed.
ConnFailed == [conn |-> FALSE, status |-> 0, reason |-> "", body |-> BodyNotJson]
NoResponse == [conn |-> FALSE, status |-> -1, reason |-> "", body |-> BodyNotJson]

Responses == {HttpResponse(s, b) : s \in Statuses, b \in Bodies} \cup {ConnFailed}

\* The smaller inputs of the concurrent specification.
ConcQueries == Queries
ConcArgs == {Omitted}
ConcResponses ==
    {HttpResponse(200, BodyResults(<<RecFull>>)),
     HttpResponse(201, BodyResults(<<RecMin>>)),
     HttpResponse(500, BodyNotJson)}

ToolOps == {"_run", "_arun"}

NoCall == [op |-> "", query |-> "", max_results |-> Omitted]
NoRequest == [method |-> "", url |-> <<>>, json |-> [none |-> ""],
              headers |-> [none |-> ""]]
NoSession == [owner |-> 0, req |-> NoRequest, resp |-> NoResponse]

-----------------------------------------------------------------------------
(* DabomSearchAPIWrapper *)

\* _get_headers: the credential goes into the Authorization header.
_get_headers ==
    [Authorization |-> <<"Bearer", dabom_api_key>>,
     ContentType |-> "application/json"]

\* A parameter's value: the argument, or the default of the signature.
DefaultMaxResults(op) ==
    CASE op = "raw_results" -> 5
      [] op = "results" -> 5
      [] op = "raw_results_async" -> 5
      [] op = "results_async" -> 5
Param(op, arg) == IF arg.given THEN arg.v ELSE DefaultMaxResults(op)

\* The request raw_results posts: requests.post(url, json=params, headers=...).
raw_results_request(query, max_results) ==
    [method |-> "POST",
     url |-> <<DABOM_API_URL, "/search">>,
     json |-> [query |-> query, max_results |-> max_results],
     headers |-> _get_headers]

\* The request raw_results_async.fetch posts: session.post(url, json=params) on
\* a ClientSession(headers=...).
raw_results_async_request(query, max_results) ==
    [method |-> "POST",
     url |-> <<DABOM_API_URL, "/search">>,
     json |-> [api_key |-> dabom_api_key, query |-> query,
               max_results |-> max_results],
     headers |-> _get_headers]

\* raise_for_status, were it to raise for server errors alone.
raise_for_status_5xx(response) ==
    IF 500 <= response.status /\ response.status < 600
    THEN Raise(Exc("HTTPError", "", response.status, response.reason))
    ELSE Ret(PyNone)

\* requests' Response.raise_for_status: HTTPError for 4xx and 5xx, else nothing.
raise_for_status(response) ==
    IF 400 <= response.status /\ response.status < 600
    THEN Raise(Exc("HTTPError", "", response.status, response.reason))
    ELSE Ret(PyNone)

\* response.json() and json.loads(text): the parsed object, or a decode error.
json_loads(body) ==
    IF body.json THEN Ret(PyDict(body.obj))
    ELSE Raise(Exc("JSONDecodeError", "", 0, ""))

\* raw_results, from the response of its requests.post on.
raw_results(response) ==
    IF ~response.conn THEN Raise(Exc("ConnectionError", "", 0, ""))
    ELSE IF raise_for_status(response).kind = "raise"
    THEN raise_for_status(response)
    ELSE json_loads(response.body)

\* clean_results' loop, were it to pass over a record lacking a field.
RECURSIVE clean_loop_skip(_, _, _)
clean_loop_skip(results, i, clean) ==
    IF i > Len(results) THEN [out |-> Ret(PyList(clean)), results |-> results]
    ELSE LET result == results[i] IN
         IF "url" \notin DOMAIN result \/ "content" \notin DOMAIN result
         THEN clean_loop_skip(results, i + 1, clean)
         ELSE clean_loop_skip(results, i + 1,
                              Append(clean, [url |-> result.url,
                                             content |-> result.content]))

\* clean_results' loop: the records from i on, appended to the list so far.
\* Yields what the call returns or raises, and the input list as it leaves it.
RECURSIVE clean_loop(_, _, _)
clean_loop(results, i, clean) ==
    IF i > Len(results) THEN [out |-> Ret(PyList(clean)), results |-> results]
    ELSE LET result == results[i] IN
         IF "url" \notin DOMAIN result
         THEN [out |-> Raise(Exc("KeyError", "url", 0, "")), results |-> results]
         ELSE IF "content" \notin DOMAIN result
         THEN [out |-> Raise(Exc("KeyError", "content", 0, "")),
               results |-> results]
         ELSE clean_loop(results, i + 1,
                         Append(clean, [url |-> result.url,
                                        content |-> result.content]))

clean_results(results) == clean_loop(results, 1, <<>>)

\* The same, were `results` read with a default: raw.get("results", []).
clean_of_get(raw) ==
    IF raw.kind = "raise" THEN raw
    ELSE IF "results" \notin DOMAIN raw.value.obj
    THEN clean_results(<<>>).out
    ELSE clean_results(raw.value.obj.results).out

\* What results / results_async do with the raw call's outcome:
\* self.clean_results(raw["results"]).
clean_of(raw) ==
    IF raw.kind = "raise" THEN raw
    ELSE IF "results" \notin DOMAIN raw.value.obj
    THEN Raise(Exc("KeyError", "results", 0, ""))
    ELSE clean_results(raw.value.obj.results).out

\* The local raw_search_results / results_json when the call ends.
local_of(raw) ==
    IF raw.kind = "raise" THEN PyNone
    ELSE IF "results" \notin DOMAIN raw.value.obj THEN raw.value
    ELSE PyDict([raw.value.obj EXCEPT
                     !.results = clean_results(raw.value.obj.results).results])

\* results passes its max_results on to raw_results.
results_request(query, max_results) == raw_results_request(query, max_results)

results(response) == clean_of(raw_results(response))

\* fetch, were it to take every 2xx status for success.
fetch_2xx(response) ==
    IF ~response.conn THEN Raise(Exc("ClientConnectorError", "", 0, ""))
    ELSE IF 200 <= response.status /\ response.status <= 299
    THEN Ret(PyText(response.body))
    ELSE Raise(Exc("Exception", "", response.status, response.reason))

\* raw_results_async.fetch, from the response of its session.post on.
fetch(response) ==
    IF ~response.conn THEN Raise(Exc("ClientConnectorError", "", 0, ""))
    ELSE IF response.status = 200 THEN Ret(PyText(response.body))
    ELSE Raise(Exc("Exception", "", response.status, response.reason))

raw_results_async(response) ==
    IF fetch(response).kind = "raise" THEN fetch(response)
    ELSE json_loads(fetch(response).value.body)

\* results_async passes its max_results on to raw_results_async.
results_async_request(query, max_results) ==
    raw_results_async_request(query, max_results)

results_async(response) == clean_of(raw_results_async(response))

-----------------------------------------------------------------------------
(* DabomSearchResults *)

ToolDefaultMaxResults == 5

\* The handler, were it to catch the HTTP error alone.
except_HTTPError(r) ==
    IF r.kind = "raise" /\ r.exc.type = "HTTPError" THEN Ret(PyRepr(r.exc))
    ELSE r

\* try: return ... except Exception as e: return repr(e)
except_Exception(r) == IF r.kind = "raise" THEN Ret(PyRepr(r.exc)) ELSE r

\* _run, were it to call results(query) without the tool's max_results.
_run_request_default(query) ==
    results_request(query, DefaultMaxResults("results"))

\* _run calls self.api_wrapper.results(query, self.max_results).
_run_request(query) == results_request(query, tool_max_results)

_run(response) == except_Exception(results(response))

\* _arun calls self.api_wrapper.results_async(query, self.max_results).
_arun_request(query) == results_async_request(query, tool_max_results)

_arun(response) == except_Exception(results_async(response))

-----------------------------------------------------------------------------
(* The calls as processes. *)

\* One session kept on the client and used by every call.
SharedSession(c) == 1

\* Each call opens a session of its own: requests.post makes one per call,
\* fetch opens an aiohttp.ClientSession per call.
SessionOf(c) == c

\* The call posts its request on its session and waits for the response.
Post(c, op, query, arg, request) ==
    /\ pc[c] = "idle"
    /\ pc' = [pc EXCEPT ![c] = "sent"]
    /\ call' = [call EXCEPT ![c] = [op |-> op, query |-> query,
                                     max_results |-> arg]]
    /\ posts' = [posts EXCEPT ![c] = @ + 1]
    /\ wire' = [wire EXCEPT ![SessionOf(c)] =
                    [owner |-> c, req |-> request, resp |-> NoResponse]]
    /\ UNCHANGED <<dabom_api_key, ctor_max_results, tool_max_results, answer,
                   raw_search_results, outcome>>

\* The response has arrived on the call's session.
Arrived(c, op) ==
    /\ pc[c] = "sent"
    /\ call[c].op = op
    /\ wire[SessionOf(c)].resp # NoResponse

\* The call ends with `out`; its session is closed.
Finish(c, out, local) ==
    /\ pc' = [pc EXCEPT ![c] = "done"]
    /\ outcome' = [outcome EXCEPT ![c] = out]
    /\ raw_search_results' = [raw_search_results EXCEPT ![c] = local]
    /\ wire' = [wire EXCEPT ![SessionOf(c)] = NoSession]
    /\ UNCHANGED <<dabom_api_key, ctor_max_results, tool_max_results, call,
                   posts, answer>>

\* raw_results, were it to post once more after a failed exchange.
raw_results_return_retry(c) ==
    /\ Arrived(c, "raw_results")
    /\ IF raw_results(wire[SessionOf(c)].resp).kind = "raise" /\ posts[c] < 2
       THEN /\ posts' = [posts EXCEPT ![c] = @ + 1]
            /\ wire' = [wire EXCEPT ![SessionOf(c)].resp = NoResponse]
            /\ UNCHANGED <<dabom_api_key, ctor_max_results, tool_max_results,
                           pc, call, answer, raw_search_results, outcome>>
       ELSE Finish(c, raw_results(wire[SessionOf(c)].resp), PyNone)

raw_results_call(c, query, arg) ==
    Post(c, "raw_results", query, arg,
         raw_results_request(query, Param("raw_results", arg)))

raw_results_return(c) ==
    /\ Arrived(c, "raw_results")
    /\ Finish(c, raw_results(wire[SessionOf(c)].resp), PyNone)

results_call(c, query, arg) ==
    Post(c, "results", query, arg,
         results_request(query, Param("results", arg)))

results_return(c) ==
    /\ Arrived(c, "results")
    /\ Finish(c, results(wire[SessionOf(c)].resp),
              local_of(raw_results(wire[SessionOf(c)].resp)))

raw_results_async_call(c, query, arg) ==
    Post(c, "raw_results_async", query, arg,
         raw_results_async_request(query, Param("raw_results_async", arg)))

raw_results_async_return(c) ==
    /\ Arrived(c, "raw_results_async")
    /\ Finish(c, raw_results_async(wire[SessionOf(c)].resp), PyNone)

results_async_call(c, query, arg) ==
    Post(c, "results_async", query, arg,
         results_async_request(query, Param("results_async", arg)))

results_async_return(c) ==
    /\ Arrived(c, "results_async")
    /\ Finish(c, results_async(wire[SessionOf(c)].resp),
              local_of(raw_results_async(wire[SessionOf(c)].resp)))

_run_call(c, query) ==
    Post(c, "_run", query, Omitted, _run_request(query))

_run_return(c) ==
    /\ Arrived(c, "_run")
    /\ Finish(c, _run(wire[SessionOf(c)].resp),
              local_of(raw_results(wire[SessionOf(c)].resp)))

_arun_call(c, query) ==
    Post(c, "_arun", query, Omitted, _arun_request(query))

_arun_return(c) ==
    /\ Arrived(c, "_arun")
    /\ Finish(c, _arun(wire[SessionOf(c)].resp),
              local_of(raw_results_async(wire[SessionOf(c)].resp)))

\* The remote service answers the request pending on session s.
Serve(s, response) ==
    /\ wire[s].owner # 0
    /\ wire[s].resp = NoResponse
    /\ wire' = [wire EXCEPT ![s].resp = response]
    /\ answer' = [answer EXCEPT ![wire[s].owner] = response]
    /\ UNCHANGED <<dabom_api_key, ctor_max_results, tool_max_results, pc, call,
                   posts, raw_search_results, outcome>>

\* The caller has its result; the next call starts from scratch.
Reset(c) ==
    /\ pc[c] = "done"
    /\ pc' = [pc EXCEPT ![c] = "idle"]
    /\ call' = [call EXCEPT ![c] = NoCall]
    /\ posts' = [posts EXCEPT ![c] = 0]
    /\ answer' = [answer EXCEPT ![c] = NoResponse]
    /\ raw_search_results' = [raw_search_results EXCEPT ![c] = PyNone]
    /\ outcome' = [outcome EXCEPT ![c] = NoOutcome]
    /\ UNCHANGED <<dabom_api_key, ctor_max_results, tool_max_results, wire>>

-----------------------------------------------------------------------------
(* The specifications. *)

\* The state after construction: the client holds its key, the tool its
\* max_results (the constructor's argument, or the field's default).
InitOf(C, K, A) ==
    /\ dabom_api_key \in K
    /\ ctor_max_results \in A
    /\ tool_max_results = IF ctor_max_results.given THEN ctor_max_results.v
                          ELSE ToolDefaultMaxResults
    /\ pc = [c \in C |-> "idle"]
    /\ call = [c \in C |-> NoCall]
    /\ posts = [c \in C |-> 0]
    /\ wire = [c \in C |-> NoSession]
    /\ answer = [c \in C |-> NoResponse]
    /\ raw_search_results = [c \in C |-> PyNone]
    /\ outcome = [c \in C |-> NoOutcome]

Calls == DOMAIN pc

\* One caller, every input.
Init == InitOf({1}, Keys, MaxResultsArgs)

Next ==
    \E c \in {1} :
        \/ \E q \in Queries, a \in MaxResultsArgs : raw_results_call(c, q, a)
        \/ \E q \in Queries, a \in MaxResultsArgs : results_call(c, q, a)
        \/ \E q \in Queries, a \in MaxResultsArgs : raw_results_async_call(c, q, a)
        \/ \E q \in Queries, a \in MaxResultsArgs : results_async_call(c, q, a)
        \/ \E q \in Queries : _run_call(c, q)
        \/ \E q \in Queries : _arun_call(c, q)
        \/ \E r \in Responses : Serve(c, r)
        \/ raw_results_return(c)
        \/ results_return(c)
        \/ raw_results_async_return(c)
        \/ results_async_return(c)
        \/ _run_return(c)
        \/ _arun_return(c)
        \/ Reset(c)

Spec == Init /\ [][Next]_vars

\* NumCalls concurrent calls on one client and one tool.
InitConc == InitOf(1..NumCalls, {"sk-A"}, {Given(7)})

NextConc ==
    \E c \in 1..NumCalls :
        \/ \E q \in ConcQueries, a \in ConcArgs : raw_results_call(c, q, a)
        \/ \E q \in ConcQueries, a \in ConcArgs : results_call(c, q, a)
        \/ \E q \in ConcQueries, a \in ConcArgs : raw_results_async_call(c, q, a)
        \/ \E q \in ConcQueries, a \in ConcArgs : results_async_call(c, q, a)
        \/ \E q \in ConcQueries : _run_call(c, q)
        \/ \E q \in ConcQueries : _arun_call(c, q)
        \/ \E r \in ConcResponses : Serve(c, r)
        \/ raw_results_return(c)
        \/ results_return(c)
        \/ raw_results_async_return(c)
        \/ results_async_return(c)
        \/ _run_return(c)
        \/ _arun_return(c)
        \/ Reset(c)

SpecConc == InitConc /\ [][NextConc]_vars

-----------------------------------------------------------------------------
(* What the claims speak of, stated without the operators of the code. *)

Done(c) == pc[c] = "done"
Is2xx(status) == 200 <= status /\ status <= 299
WellFormed(rec) == "url" \in DOMAIN rec /\ "content" \in DOMAIN rec
Projection(l) == [i \in 1..Len(l) |-> [url |-> l[i].url, content |-> l[i].content]]
HasResults(response) ==
    response.conn /\ response.body.json /\ "results" \in DOMAIN response.body.obj
\* The classes the client raises for a failed exchange.
TransportTypes == {"HTTPError", "ConnectionError", "ClientConnectorError", "Exception"}
Pending == {s \in DOMAIN wire : wire[s].owner # 0}

\* C1: for every 2xx response whose body holds N records with url and content,
\* results and results_async return the N projections {url, content} in order.
C1_CleanedOnEvery2xx ==
    \A c \in Calls :
        (/\ Done(c)
         /\ call[c].op \in {"results", "results_async"}
         /\ HasResults(answer[c])
         /\ Is2xx(answer[c].status)
         /\ \A i \in 1..Len(answer[c].body.obj.results) :
                WellFormed(answer[c].body.obj.results[i]))
        => outcome[c] = Ret(PyList(Projection(answer[c].body.obj.results)))

\* Whether the exchange of a client call fails: no connection, a status the
\* path rejects, a body that is no JSON, no `results`, a record lacking a field.
ClientFails(op, response) ==
    \/ ~response.conn
    \/ IF op = "_run" THEN 400 <= response.status /\ response.status < 600
       ELSE response.status # 200
    \/ ~response.body.json
    \/ "results" \notin DOMAIN response.body.obj
    \/ \E i \in 1..Len(response.body.obj.results) :
           ~WellFormed(response.body.obj.results[i])

\* C2: _run and _arun never raise: a failure of the client comes back as the
\* repr string of the error, a success as the cleaned list.
C2_ToolNeverRaises ==
    \A c \in Calls :
        (Done(c) /\ call[c].op \in ToolOps) =>
            /\ outcome[c].kind = "return"
            /\ IF ClientFails(call[c].op, answer[c])
               THEN /\ outcome[c].value.t = "str"
                    /\ outcome[c].value.repr.type \in
                           TransportTypes \cup {"JSONDecodeError", "KeyError"}
               ELSE outcome[c].value =
                        PyList(Projection(answer[c].body.obj.results))

C2_Witness ==
    \E c \in Calls :
        /\ Done(c) /\ call[c].op = "_arun"
        /\ outcome[c].value.t = "str"
        /\ outcome[c].value.repr.type = "KeyError"

\* C3 as claimed: for every response whose status is not 2xx, results raises an
\* HTTP error carrying the status code.
C3_RaisesOnEveryNon2xx ==
    \A c \in Calls :
        (Done(c) /\ call[c].op = "results" /\ answer[c].conn
         /\ ~Is2xx(answer[c].status))
        => /\ outcome[c].kind = "raise"
           /\ outcome[c].exc.type = "HTTPError"
           /\ outcome[c].exc.status = answer[c].status

\* C3 as amended: for every response whose status is 4xx or 5xx, results raises
\* an HTTPError carrying the status code and reason, and cleans nothing.
C3_RaisesOn4xx5xx ==
    \A c \in Calls :
        (Done(c) /\ call[c].op = "results" /\ answer[c].conn
         /\ 400 <= answer[c].status /\ answer[c].status < 600)
        => /\ outcome[c] = Raise(Exc("HTTPError", "", answer[c].status,
                                     answer[c].reason))
           /\ raw_search_results[c] = PyNone

C3_Witness ==
    \E c \in Calls :
        /\ Done(c) /\ call[c].op = "results"
        /\ answer[c].status = 404 /\ HasResults(answer[c])
        /\ outcome[c].kind = "raise"

\* The class of the error clean_results raises for a record lacking a field.
MissingFieldType == "KeyError"

\* C4 as claimed: for a 200 response whose body lacks `results`, results and
\* results_async raise an error of a kind distinct from the transport errors
\* and from the missing-field error of a record.
C4_MalformedIsItsOwnKind ==
    \A c \in Calls :
        (Done(c) /\ call[c].op \in {"results", "results_async"}
         /\ answer[c].conn /\ answer[c].status = 200 /\ answer[c].body.json
         /\ "results" \notin DOMAIN answer[c].body.obj)
        => /\ outcome[c].kind = "raise"
           /\ outcome[c].exc.type \notin TransportTypes
           /\ outcome[c].exc.type # MissingFieldType

\* C4 as amended: for a 200 response whose body lacks `results`, results and
\* results_async raise KeyError('results'): no transport error, and of the same
\* class as the missing-field error of a record, told apart by the key alone.
C4_KeyErrorResults ==
    /\ \A c \in Calls :
        (Done(c) /\ call[c].op \in {"results", "results_async"}
         /\ answer[c].conn /\ answer[c].status = 200 /\ answer[c].body.json
         /\ "results" \notin DOMAIN answer[c].body.obj)
        => /\ outcome[c] = Raise(Exc("KeyError", "results", 0, ""))
           /\ outcome[c].exc.type \notin TransportTypes
    /\ \A c \in Calls :
        (Done(c) /\ call[c].op \in {"results", "results_async"}
         /\ HasResults(answer[c]) /\ answer[c].status = 200
         /\ \E i \in 1..Len(answer[c].body.obj.results) :
                ~WellFormed(answer[c].body.obj.results[i]))
        => /\ outcome[c].kind = "raise"
           /\ outcome[c].exc.type = MissingFieldType
           /\ outcome[c].exc.key \in {"url", "content"}

C4_Witness ==
    \E c \in Calls :
        /\ Done(c) /\ call[c].op = "results_async"
        /\ answer[c].status = 200 /\ answer[c].body = BodyNoResults
        /\ outcome[c].exc.key = "results"

\* C5: every request, of the synchronous and of the asynchronous path, is a
\* POST to <base>/search whose JSON body is exactly {query, max_results} and
\* whose headers are Authorization: Bearer <key> and Content-Type; the key is
\* in no field of the body.
C5_SameRequest ==
    \A s \in Pending :
        /\ wire[s].req.method = "POST"
        /\ wire[s].req.url = <<DABOM_API_URL, "/search">>
        /\ DOMAIN wire[s].req.json = {"query", "max_results"}
        /\ wire[s].req.json.query = call[wire[s].owner].query
        /\ wire[s].req.headers =
               [Authorization |-> <<"Bearer", dabom_api_key>>,
                ContentType |-> "application/json"]

\* C6: raw_results_async returns only for status 200, and the parsed body then;
\* for any other status it raises an error naming the status and the reason;
\* raw_results returns the parsed body for every 2xx status.
C6_AsyncOnly200 ==
    \A c \in Calls :
        /\ (Done(c) /\ call[c].op = "raw_results_async" /\ answer[c].conn) =>
            /\ outcome[c].kind = "return" => answer[c].status = 200
            /\ answer[c].status # 200 =>
                   outcome[c] = Raise(Exc("Exception", "", answer[c].status,
                                          answer[c].reason))
            /\ (answer[c].status = 200 /\ answer[c].body.json) =>
                   outcome[c] = Ret(PyDict(answer[c].body.obj))
        /\ (Done(c) /\ call[c].op = "raw_results" /\ answer[c].conn
            /\ Is2xx(answer[c].status) /\ answer[c].body.json) =>
                   outcome[c] = Ret(PyDict(answer[c].body.obj))

C6_Witness ==
    \E c \in Calls :
        /\ Done(c) /\ call[c].op = "raw_results_async"
        /\ answer[c].status = 201 /\ answer[c].body.json
        /\ outcome[c].kind = "raise"

\* C7: the max_results of a request is the caller's, or 5 when the caller left
\* it out; a tool sends the max_results it was constructed with, or 5; and the
\* tool's max_results is what its construction made it, in every state.
C7_MaxResultsDefault ==
    /\ tool_max_results =
           IF ctor_max_results.given THEN ctor_max_results.v ELSE 5
    /\ \A s \in Pending :
           LET c == wire[s].owner IN
           wire[s].req.json.max_results =
               IF call[c].op \in ToolOps
               THEN IF ctor_max_results.given THEN ctor_max_results.v ELSE 5
               ELSE IF call[c].max_results.given THEN call[c].max_results.v
                    ELSE 5

C7_Witness ==
    \E s \in Pending :
        /\ call[wire[s].owner].op = "_run"
        /\ ctor_max_results = Given(7)
        /\ wire[s].req.json.max_results = 7

\* C8: a call has issued exactly one POST from its start to its end, whether it
\* ends in a result or in an error, and it ends on the response to that POST.
C8_OnePost ==
    \A c \in Calls :
        /\ pc[c] = "idle" => posts[c] = 0
        /\ pc[c] \in {"sent", "done"} => posts[c] = 1
        /\ Done(c) => answer[c] # NoResponse

C8_Witness ==
    \E c \in Calls :
        /\ Done(c) /\ call[c].op = "raw_results"
        /\ outcome[c].kind = "raise" /\ answer[c].status = 500
        /\ posts[c] = 1

\* What an operation makes of a response.
OpResult(op, response) ==
    CASE op = "raw_results" -> raw_results(response)
      [] op = "results" -> results(response)
      [] op = "raw_results_async" -> raw_results_async(response)
      [] op = "results_async" -> results_async(response)
      [] op = "_run" -> _run(response)
      [] op = "_arun" -> _arun(response)

\* Every waiting call has a session that is its own, and every finished call
\* ended on the response to its own request.
NoInterference ==
    \A c \in Calls :
        /\ pc[c] = "sent" =>
               \E s \in Pending :
                   /\ wire[s].owner = c
                   /\ wire[s].req.json.query = call[c].query
                   /\ wire[s].resp \in {NoResponse, answer[c]}
        /\ Done(c) =>
               /\ answer[c] # NoResponse
               /\ outcome[c] = OpResult(call[c].op, answer[c])

\* C9: under every interleaving of concurrent calls on one client, each call
\* has its own session and its outcome is that of its own response, and the
\* client's key never changes.
C9_NoInterference ==
    [](NoInterference) /\ [][dabom_api_key' = dabom_api_key]_vars

C9_Witness ==
    \E c, d \in Calls :
        /\ c # d /\ Done(c) /\ Done(d)
        /\ call[c].op = "results_async" /\ call[d].op = "results_async"
        /\ call[c].query # call[d].query
        /\ outcome[c].kind # outcome[d].kind

\* C10: clean_results leaves its input as it was, its result is a function of
\* the input alone (the projections in order), and when a record lacks url or
\* content it raises the missing-field error and yields no list at all.
C10_CleanResultsPure ==
    \A c \in Calls :
        (Done(c) /\ call[c].op \in {"results", "results_async"}
         /\ raw_search_results[c].t = "dict"
         /\ "results" \in DOMAIN raw_search_results[c].obj) =>
            LET l == answer[c].body.obj.results
                faulty == {i \in 1..Len(l) : ~WellFormed(l[i])}
            IN /\ raw_search_results[c] = PyDict(answer[c].body.obj)
               /\ IF faulty = {}
                  THEN outcome[c] = Ret(PyList(Projection(l)))
                  ELSE /\ outcome[c].kind = "raise"
                       /\ outcome[c].value = PyNone
                       /\ outcome[c].exc.type = "KeyError"
                       /\ \E i \in faulty :
                              /\ \A j \in faulty : i <= j
                              /\ outcome[c].exc.key =
                                     IF "url" \notin DOMAIN l[i] THEN "url"
                                     ELSE "content"

C10_Witness ==
    \E c \in Calls :
        /\ Done(c) /\ call[c].op = "results"
        /\ HasResults(answer[c])
        /\ answer[c].body.obj.results = <<RecFull, RecNoContent>>
        /\ outcome[c].kind = "raise"

=============================================================================
